---- MODULE Spec2Model ----
(***************************************************************************)
(* Bresser 5-in-1 / 6-in-1 / 7-in-1 decoder (src/devices/bresser_5in1.c). *)
(* The host hands one bitbuffer to bresser_5in1_decode, which first tries *)
(* bresser_7in1_decode, then bresser_6in1_decode, then its own 5-in-1     *)
(* layout.  Rows are sequences of bits; bytes are numbers 0..255.         *)
(***************************************************************************)
EXTENDS Integers, Sequences, FiniteSets, TLC

VARIABLES bitbuffer, tx, pc, entry, att7, att6, att5, ret, sink, prior, flipped

vars == <<bitbuffer, tx, pc, entry, att7, att6, att5, ret, sink, prior, flipped>>

(***************************************************************************)
(* Return codes of a decode function (decoder.h, not part of this file).   *)
(***************************************************************************)
DECODE_ABORT_LENGTH == -1
DECODE_ABORT_EARLY == -2
DECODE_FAIL_MIC == -3
DECODE_FAIL_SANITY == -4

(***************************************************************************)
(* Byte and word arithmetic of the C code.                                 *)
(***************************************************************************)
\* a ^ b on w-bit unsigned values
RECURSIVE Xor(_, _, _)
Xor(a, b, w) ==
    IF w = 0 THEN 0
    ELSE ((a + b) % 2) + 2 * Xor(a \div 2, b \div 2, w - 1)

HiNibble(b) == b \div 16
LoNibble(b) == b % 16

\* uint8_t const preamble_pattern[] of the 7-in-1 and the 5-in-1 decoder
preamble_pattern_7in1 == <<170, 170, 170, 45, 212>>
\* uint8_t const preamble_pattern[] of the 6-in-1 decoder
preamble_pattern_6in1 == <<170, 170, 45, 212>>

\* bit i (0 = first transmitted, the msb) of a byte string
BitWeight == <<128, 64, 32, 16, 8, 4, 2, 1>>

ByteBit(bytes, i) == (bytes[(i \div 8) + 1] \div BitWeight[(i % 8) + 1]) % 2

BytesToBits(bytes) == [i \in 1..(8 * Len(bytes)) |-> ByteBit(bytes, i - 1)]

\* the patterns as the search compares them, bit by bit
preamble_bits_7in1 == BytesToBits(preamble_pattern_7in1)
preamble_bits_6in1 == BytesToBits(preamble_pattern_6in1)

(***************************************************************************)
(* bitbuffer_t: only row 0 is ever read.  bits_per_row is the declared     *)
(* length of row 0, row its bits; the row's storage continues past the     *)
(* declared length with whatever an earlier reception left there (stale).  *)
(***************************************************************************)
RowBit(bb, i) == IF i < bb.bits_per_row THEN bb.row[i + 1] ELSE bb.stale

\* bitbuffer_search(bitbuffer, 0, 0, pattern, bits): offset of the first
\* occurrence inside the declared length, or bits_per_row[0] when there is none
MatchAt(bb, patbits, p) == \A k \in 1..Len(patbits) : bb.row[p + k] = patbits[k]

bitbuffer_search(bb, patbits) ==
    LET hits == {p \in 0..(bb.bits_per_row - Len(patbits)) : MatchAt(bb, patbits, p)}
    IN  IF hits = {} THEN bb.bits_per_row
        ELSE CHOOSE p \in hits : \A q \in hits : p <= q

\* bitbuffer_extract_bytes(bitbuffer, 0, pos, out, len): len bits from pos into
\* (len + 7) / 8 bytes msb first, the unused low bits of the last byte cleared
ExtractByte(bb, pos, len, k) ==
    LET bitv(j) == IF 8 * k + j < len THEN RowBit(bb, pos + 8 * k + j) ELSE 0
    IN  128 * bitv(0) + 64 * bitv(1) + 32 * bitv(2) + 16 * bitv(3)
        + 8 * bitv(4) + 4 * bitv(5) + 2 * bitv(6) + bitv(7)

bitbuffer_extract_bytes(bb, pos, len) ==
    [k \in 1..((len + 7) \div 8) |-> ExtractByte(bb, pos, len, k - 1)]

\* lfsr_digest16(message, bytes, gen, key): the xor of the rolling key over the set
\* bits of the message, msb first; after every bit the key rolls right and takes
\* gen when the bit it drops is set
RollKey(key, gen) == IF key % 2 = 1 THEN Xor(key \div 2, gen, 16) ELSE key \div 2

\* the keys in the order the message bits meet them, a byte's eight at a time
RECURSIVE KeySeq(_, _, _)
KeySeq(gen, keys, n) ==
    IF Len(keys) >= n THEN SubSeq(keys, 1, n)
    ELSE LET k1 == RollKey(keys[Len(keys)], gen)
             k2 == RollKey(k1, gen)
             k3 == RollKey(k2, gen)
             k4 == RollKey(k3, gen)
             k5 == RollKey(k4, gen)
             k6 == RollKey(k5, gen)
             k7 == RollKey(k6, gen)
             k8 == RollKey(k7, gen)
         IN  KeySeq(gen, keys \o <<k1, k2, k3, k4, k5, k6, k7, k8>>, n)

WordWeight ==
    <<1, 2, 4, 8, 16, 32, 64, 128, 256, 512, 1024, 2048, 4096, 8192, 16384, 32768>>

\* the positions (0 = lsb) of the set bits of a 16-bit word
WordBits(w) == {b \in 0..15 : (w \div WordWeight[b + 1]) % 2 = 1}

KeyBits(gen, key, n) ==
    LET keys == KeySeq(gen, <<key>>, n) IN [i \in 1..n |-> WordBits(keys[i])]

\* generator 0x8810 with key 0x5412 over 15 bytes, with key 0xba95 over 23 bytes
lfsr_keys_5412 == KeyBits(34832, 21522, 15 * 8)
lfsr_keys_ba95 == KeyBits(34832, 47765, 23 * 8)

\* bit b of the xor of a set of words is the parity of the words that have it
lfsr_digest16(message, gen, key) ==
    LET keys == IF key = 21522 THEN lfsr_keys_5412 ELSE lfsr_keys_ba95
        ones == {i \in 1..(8 * Len(message)) : ByteBit(message, i - 1) = 1}
        sum(b) == Cardinality({i \in ones : b \in keys[i]}) % 2
    IN  sum(0) + 2 * sum(1) + 4 * sum(2) + 8 * sum(3) + 16 * sum(4) + 32 * sum(5)
        + 64 * sum(6) + 128 * sum(7) + 256 * sum(8) + 512 * sum(9) + 1024 * sum(10)
        + 2048 * sum(11) + 4096 * sum(12) + 8192 * sum(13) + 16384 * sum(14)
        + 32768 * sum(15)

\* add_bytes(message, num_bytes): the plain integer sum of the bytes
RECURSIVE add_bytes(_)
add_bytes(message) ==
    IF message = <<>> THEN 0 ELSE Head(message) + add_bytes(Tail(message))

\* &msg[from], count bytes (0-based from)
Sub(msg, from, count) == SubSeq(msg, from + 1, from + count)

(***************************************************************************)
(* The record one variant attempt leaves behind: the stage it ended in,    *)
(* its return value, whether the preamble search ran, the offset after the *)
(* preamble, the number of bits copied into msg, msg as the integrity      *)
(* check saw it, the check's verdict, and what went to decoder_output_data.*)
(***************************************************************************)
NotAttempted ==
    [stage |-> "none", ret |-> 0, searched |-> FALSE, start_pos |-> 0,
     copied |-> 0, msg |-> <<>>, mic |-> "na", out |-> <<>>]

Rejected(stage, code, searched, start_pos) ==
    [stage |-> stage, ret |-> code, searched |-> searched, start_pos |-> start_pos,
     copied |-> 0, msg |-> <<>>, mic |-> "na", out |-> <<>>]

Failed(stage, code, start_pos, copied, msg, mic) ==
    [stage |-> stage, ret |-> code, searched |-> TRUE, start_pos |-> start_pos,
     copied |-> copied, msg |-> msg, mic |-> mic, out |-> <<>>]

Decoded(start_pos, copied, msg, mic, reading) ==
    [stage |-> "decoded", ret |-> 1, searched |-> TRUE, start_pos |-> start_pos,
     copied |-> copied, msg |-> msg, mic |-> mic, out |-> <<reading>>]

\* DATA_COND: the field is present only when its condition holds
Cond(ok, v) == IF ok THEN <<v>> ELSE <<>>

\* three BCD digits / the wrap-around of a raw temperature above 600
Bcd3(a, b, c) == a * 100 + b * 10 + c
TempFix(temp_raw) == IF temp_raw > 600 THEN temp_raw - 1000 ELSE temp_raw

(***************************************************************************)
(* bresser_7in1_decode                                                     *)
(***************************************************************************)
MSG_SIZE_7IN1 == 25

LengthReject7(bb) == bb.num_rows # 1 \/ bb.bits_per_row < 240 - 80

\* the test line 73 leaves commented out
TooShort7_SizeofMsg(start_pos, bits) == start_pos + MSG_SIZE_7IN1 * 8 >= bits

TooShort7(start_pos, bits) == start_pos + 21 * 8 >= bits

Whiten(msg) == [i \in 1..Len(msg) |-> Xor(msg[i], 170, 8)]

Digest7Ok(msg) ==
    LET chk == msg[1] * 256 + msg[2]
        digest == lfsr_digest16(Sub(msg, 2, 23), 34832, 47765)
    IN  Xor(chk, digest, 16) = 28145

Fields7(msg) ==
    LET temp_raw == Bcd3(HiNibble(msg[15]), LoNibble(msg[15]), HiNibble(msg[16]))
    IN  [model |-> "Bresser-7in1",
         id |-> msg[3] * 256 + msg[4],
         temperature |-> TempFix(temp_raw),
         humidity |-> HiNibble(msg[17]) * 10 + LoNibble(msg[17]),
         wind_max |-> Bcd3(HiNibble(msg[8]), LoNibble(msg[8]), HiNibble(msg[9])),
         wind_avg |-> Bcd3(LoNibble(msg[9]), HiNibble(msg[10]), LoNibble(msg[10])),
         wind_dir |-> Bcd3(HiNibble(msg[5]), LoNibble(msg[5]), HiNibble(msg[6])),
         rain |-> HiNibble(msg[11]) * 100000 + LoNibble(msg[11]) * 10000
                  + HiNibble(msg[12]) * 1000,
         light |-> HiNibble(msg[18]) * 1000 + LoNibble(msg[18]) * 100
                   + HiNibble(msg[19]) * 10 + LoNibble(msg[19]),
         mic |-> "CRC"]

bresser_7in1_decode(bb) ==
    IF LengthReject7(bb)
    THEN Rejected("length", DECODE_ABORT_LENGTH, FALSE, 0)
    ELSE
    LET start_pos == bitbuffer_search(bb, preamble_bits_7in1)
                     + 8 * Len(preamble_pattern_7in1)
    IN  IF start_pos >= bb.bits_per_row
        THEN Rejected("preamble", DECODE_ABORT_EARLY, TRUE, start_pos)
        ELSE IF TooShort7(start_pos, bb.bits_per_row)
        THEN Rejected("short", DECODE_ABORT_LENGTH, TRUE, start_pos)
        ELSE
        LET raw == bitbuffer_extract_bytes(bb, start_pos, MSG_SIZE_7IN1 * 8)
            msg == Whiten(raw)
        IN  IF raw[22] = 0
            THEN Failed("sanity", DECODE_FAIL_SANITY, start_pos, MSG_SIZE_7IN1 * 8, raw, "na")
            ELSE Decoded(start_pos, MSG_SIZE_7IN1 * 8, msg,
                         IF Digest7Ok(msg) THEN "pass" ELSE "fail", Fields7(msg))

(***************************************************************************)
(* bresser_6in1_decode                                                     *)
(***************************************************************************)
MSG_SIZE_6IN1 == 18

\* the row count not looked at
LengthReject6_AnyRows(bb) == bb.bits_per_row < 160 \/ bb.bits_per_row > 440

LengthReject6(bb) ==
    bb.num_rows # 1 \/ bb.bits_per_row < 160 \/ bb.bits_per_row > 440

TooShort6(len) == len < MSG_SIZE_6IN1 * 8

\* the digest compared in its low byte only
Digest6Ok_LowByte(msg) ==
    LET chkdgst == msg[1] * 256 + msg[2]
        digest == lfsr_digest16(Sub(msg, 2, 15), 34832, 21522)
    IN  chkdgst % 256 = digest % 256

Digest6Ok(msg) ==
    LET chkdgst == msg[1] * 256 + msg[2]
        digest == lfsr_digest16(Sub(msg, 2, 15), 34832, 21522)
    IN  chkdgst = digest

\* the carries folded back into the low byte before the comparison
RECURSIVE EndAround(_)
EndAround(sum) == IF sum > 255 THEN EndAround((sum % 256) + (sum \div 256)) ELSE sum

Checksum6Ok_EndAround(msg) ==
    LET sum == add_bytes(Sub(msg, 2, 16))
    IN  EndAround(sum) = 255

Checksum6Ok(msg) ==
    LET sum == add_bytes(Sub(msg, 2, 16))
    IN  sum % 256 = 255

Fields6(msg) ==
    LET temp_ok == msg[13] # 255
        temp_raw == Bcd3(HiNibble(msg[13]), LoNibble(msg[13]), HiNibble(msg[14]))
        humidity_ok == msg[15] # 255
        uv_ok == HiNibble(msg[17]) # 15
        unk_ok == HiNibble(msg[17]) = 15
        w7 == Xor(msg[8], 255, 8)
        w8 == Xor(msg[9], 255, 8)
        w9 == Xor(msg[10], 255, 8)
        wind_ok == w7 <= 153 /\ w8 <= 153 /\ w9 <= 153
        r13 == Xor(msg[14], 255, 8)
        r14 == Xor(msg[15], 255, 8)
    IN  [model |-> "Bresser-6in1",
         id |-> ((msg[3] * 256 + msg[4]) * 256 + msg[5]) * 256 + msg[6],
         channel |-> msg[7] % 8,
         battery_ok |-> 1 - ((msg[7] \div 8) % 2),
         temperature |-> Cond(temp_ok, TempFix(temp_raw)),
         humidity |-> Cond(humidity_ok, HiNibble(msg[15]) * 10 + LoNibble(msg[15])),
         wind_max |-> Cond(wind_ok, Bcd3(HiNibble(w7), LoNibble(w7), HiNibble(w8))),
         wind_avg |-> Cond(wind_ok, Bcd3(HiNibble(w9), LoNibble(w9), LoNibble(w8))),
         wind_dir |-> Cond(wind_ok, Bcd3(HiNibble(msg[11]), LoNibble(msg[11]), HiNibble(msg[12]))),
         rain |-> Cond(~temp_ok, HiNibble(r13) * 1000 + LoNibble(r13) * 100
                                 + HiNibble(r14) * 10 + LoNibble(r14)),
         unknown |-> Cond(unk_ok, HiNibble(msg[16]) * 10 + LoNibble(msg[16])),
         uv |-> Cond(uv_ok, Bcd3(HiNibble(msg[16]), LoNibble(msg[16]), HiNibble(msg[17]))),
         flags |-> HiNibble(msg[7]),
         mic |-> "CRC"]

bresser_6in1_decode(bb) ==
    IF LengthReject6(bb)
    THEN Rejected("length", DECODE_ABORT_EARLY, FALSE, 0)
    ELSE
    LET found == bitbuffer_search(bb, preamble_bits_6in1)
        start_pos == found + 8 * Len(preamble_pattern_6in1)
        len == bb.bits_per_row - start_pos
    IN  IF found >= bb.bits_per_row
        THEN Rejected("preamble", DECODE_ABORT_LENGTH, TRUE, found)
        ELSE IF TooShort6(len)
        THEN Rejected("short", DECODE_ABORT_LENGTH, TRUE, start_pos)
        ELSE
        LET msg == bitbuffer_extract_bytes(bb, start_pos, MSG_SIZE_6IN1 * 8)
        IN  IF ~Digest6Ok(msg)
            THEN Failed("digest", DECODE_FAIL_MIC, start_pos, MSG_SIZE_6IN1 * 8, msg, "fail")
            ELSE IF ~Checksum6Ok(msg)
            THEN Failed("checksum", DECODE_FAIL_MIC, start_pos, MSG_SIZE_6IN1 * 8, msg, "fail")
            ELSE Decoded(start_pos, MSG_SIZE_6IN1 * 8, msg, "pass", Fields6(msg))

(***************************************************************************)
(* bresser_5in1_decode, after the two piggy-backed decoders                *)
(***************************************************************************)
MSG_SIZE_5IN1 == 26

LengthReject5(bb) ==
    bb.num_rows # 1 \/ bb.bits_per_row < 248 \/ bb.bits_per_row > 440

TooShort5(len) == ((len + 7) \div 8) < MSG_SIZE_5IN1

MIN(a, b) == IF a < b THEN a ELSE b

\* the loop stopped one column early
Parity5Ok_TwelvePairs(msg) ==
    \A col \in 0..11 : Xor(msg[col + 1], msg[col + 14], 8) = 255

\* the columns whose byte is not the inverse of the byte 13 further
ParityWrong(msg) ==
    {col \in 0..((MSG_SIZE_5IN1 \div 2) - 1) : Xor(msg[col + 1], msg[col + 14], 8) # 255}

Parity5Ok(msg) == ParityWrong(msg) = {}

Fields5(msg) ==
    LET mag == LoNibble(msg[21]) + HiNibble(msg[21]) * 10 + LoNibble(msg[22]) * 100
        temp_raw == IF LoNibble(msg[26]) # 0 THEN 0 - mag ELSE mag
        battery_ok == (msg[26] \div 128) = 0
    IN  [model |-> "Bresser-5in1",
         id |-> msg[15],
         battery |-> IF battery_ok THEN "OK" ELSE "LOW",
         temperature |-> temp_raw,
         humidity |-> LoNibble(msg[23]) + HiNibble(msg[23]) * 10,
         wind_max |-> LoNibble(msg[18]) * 256 + msg[17],
         wind_avg |-> LoNibble(msg[19]) + HiNibble(msg[19]) * 10 + LoNibble(msg[20]) * 100,
         wind_dir |-> HiNibble(msg[18]),
         rain |-> LoNibble(msg[24]) + HiNibble(msg[24]) * 10 + LoNibble(msg[25]) * 100,
         mic |-> "CHECKSUM"]

bresser_5in1_own(bb) ==
    IF LengthReject5(bb)
    THEN Rejected("length", DECODE_ABORT_EARLY, FALSE, 0)
    ELSE
    LET found == bitbuffer_search(bb, preamble_bits_7in1)
        start_pos == found + 8 * Len(preamble_pattern_7in1)
        remaining == bb.bits_per_row - start_pos
        len == MIN(remaining, MSG_SIZE_5IN1 * 8)
    IN  IF found = bb.bits_per_row
        THEN Rejected("preamble", DECODE_ABORT_LENGTH, TRUE, found)
        ELSE IF TooShort5(remaining)
        THEN Rejected("short", DECODE_ABORT_LENGTH, TRUE, start_pos)
        ELSE
        LET msg == bitbuffer_extract_bytes(bb, start_pos, len)
        IN  IF ~Parity5Ok(msg)
            THEN Failed("parity", DECODE_FAIL_MIC, start_pos, len, msg, "fail")
            ELSE Decoded(start_pos, len, msg, "pass", Fields5(msg))

(***************************************************************************)
(* The dispatcher: bresser_5in1_decode returns the first positive result   *)
(* of the 7-in-1 and the 6-in-1 decoder, else whatever its own part gives. *)
(***************************************************************************)
\* the 6-in-1 decoder left out of the chain
AfterAttempt_SkipSix(v, r) ==
    IF r > 0 THEN "done"
    ELSE IF v = "7in1" THEN "5in1"
    ELSE IF v = "6in1" THEN "5in1"
    ELSE "done"

\* the early returns on a positive result left out
AfterAttempt_NoReturn(v, r) ==
    IF v = "7in1" THEN "6in1"
    ELSE IF v = "6in1" THEN "5in1"
    ELSE "done"

\* where the call goes after variant v returned r
AfterAttempt(v, r) ==
    IF r > 0 THEN "done"
    ELSE IF v = "7in1" THEN "6in1"
    ELSE IF v = "6in1" THEN "5in1"
    ELSE "done"

Try7in1 ==
    /\ pc = "7in1"
    /\ att7' = bresser_7in1_decode(bitbuffer)
    /\ sink' = sink \o att7'.out
    /\ pc' = AfterAttempt("7in1", att7'.ret)
    /\ ret' = IF pc' = "done" THEN att7'.ret ELSE ret
    /\ UNCHANGED <<bitbuffer, tx, entry, att6, att5, prior, flipped>>

Try6in1 ==
    /\ pc = "6in1"
    /\ att6' = bresser_6in1_decode(bitbuffer)
    /\ sink' = sink \o att6'.out
    /\ pc' = AfterAttempt("6in1", att6'.ret)
    /\ ret' = IF pc' = "done" THEN att6'.ret ELSE ret
    /\ UNCHANGED <<bitbuffer, tx, entry, att7, att5, prior, flipped>>

Try5in1 ==
    /\ pc = "5in1"
    /\ att5' = bresser_5in1_own(bitbuffer)
    /\ sink' = sink \o att5'.out
    /\ pc' = AfterAttempt("5in1", att5'.ret)
    /\ ret' = IF pc' = "done" THEN att5'.ret ELSE ret
    /\ UNCHANGED <<bitbuffer, tx, entry, att7, att6, prior, flipped>>

(***************************************************************************)
(* The captures the host hands over.  A transmission is pad bits, a        *)
(* preamble, the first n bits of a frame continued by filler bits; tx      *)
(* remembers what was sent.                                                *)
(***************************************************************************)
MaxPad == 7
MaxDelta == 1
MaxRows == 2

\* ee 93 7f f7 bf fb ef 9e fe ae bf ff ff 11 6c 80 08 40 04 10 61 01 51 40 00 00
ref_5in1_a ==
    <<238, 147, 127, 247, 191, 251, 239, 158, 254, 174, 191, 255, 255, 17, 108, 128, 8, 64, 4, 16, 97, 1, 81, 64, 0, 0>>
\* ef a1 ff ff 1f ff ef dc ff de df ff 7f 10 5e 00 00 e0 00 10 23 00 21 20 00 80
ref_5in1_b ==
    <<239, 161, 255, 255, 31, 255, 239, 220, 255, 222, 223, 255, 127, 16, 94, 0, 0, 224, 0, 16, 35, 0, 33, 32, 0, 128>>
\* ed a1 ff ff 1f ff ef 8f ff d6 df ff 77 12 5e 00 00 e0 00 10 70 00 29 20 00 88
ref_5in1_c ==
    <<237, 161, 255, 255, 31, 255, 239, 143, 255, 214, 223, 255, 119, 18, 94, 0, 0, 224, 0, 16, 112, 0, 41, 32, 0, 136>>
\* cc 93 18 80 02 c3 18 ff ff ff 33 68 03 04 95 ff f0 67
ref_6in1_a ==
    <<204, 147, 24, 128, 2, 195, 24, 255, 255, 255, 51, 104, 3, 4, 149, 255, 240, 103>>
\* 5e aa 18 80 02 c3 18 fa 8f fb 27 68 11 84 81 ff f0 72
ref_6in1_b ==
    <<94, 170, 24, 128, 2, 195, 24, 250, 143, 251, 39, 104, 17, 132, 129, 255, 240, 114>>
\* 63 1d 05 c0 9e 9a 18 ab aa ba aa aa aa aa 8a da cb ac ff 9c af ca aa aa aa
ref_7in1_a ==
    <<99, 29, 5, 192, 158, 154, 24, 171, 170, 186, 170, 170, 170, 170, 138, 218, 203, 172, 255, 156, 175, 202, 170, 170, 170>>

PreambleBytes(pre) ==
    IF pre = "p7" THEN preamble_pattern_7in1
    ELSE IF pre = "p6" THEN <<0>> \o preamble_pattern_6in1
    ELSE <<0, 0, 0, 0, 0>>

PreambleBits == 8 * Len(preamble_pattern_7in1)

\* the row the demodulator delivers for a transmission t
RowOf(t) ==
    LET pbits == BytesToBits(PreambleBytes(t.pre))
        fbits == BytesToBits(t.frame)
    IN  [i \in 1..(t.k + PreambleBits + t.n) |->
            IF i <= t.k THEN t.fill
            ELSE IF i <= t.k + PreambleBits THEN pbits[i - t.k]
            ELSE IF i - t.k - PreambleBits <= Len(fbits)
                 THEN IF i - t.k - PreambleBits - 1 = t.flip
                      THEN 1 - fbits[i - t.k - PreambleBits]
                      ELSE fbits[i - t.k - PreambleBits]
            ELSE t.fill]

BufferOf(t) ==
    [num_rows |-> t.num_rows, bits_per_row |-> t.k + PreambleBits + t.n,
     row |-> RowOf(t), stale |-> t.stale]

\* remaining-bit counts around every length test of the three decoders
Thresholds == {160 - 40, MSG_SIZE_6IN1 * 8, 21 * 8, MSG_SIZE_7IN1 * 8, MSG_SIZE_5IN1 * 8, 440 - 40}
LenSet == {t + d : t \in Thresholds, d \in (0 - MaxDelta)..MaxDelta}

LenFrames == {ref_5in1_a, ref_5in1_b, ref_6in1_a, ref_7in1_a}

FamLen ==
    [num_rows : {1}, k : 0..MaxPad, pre : {"none", "p6", "p7"}, frame : LenFrames,
     n : LenSet, fill : {0, 1}, stale : {0, 1}, flip : {-1}]

FamRows ==
    [num_rows : (0..MaxRows) \ {1}, k : {0}, pre : {"p6", "p7"}, frame : LenFrames,
     n : {MSG_SIZE_6IN1 * 8, MSG_SIZE_5IN1 * 8}, fill : {0}, stale : {0}, flip : {-1}]

FamFlip5 ==
    [num_rows : {1}, k : {0}, pre : {"p7"}, frame : {ref_5in1_b, ref_5in1_c},
     n : {MSG_SIZE_5IN1 * 8}, fill : {0}, stale : {0}, flip : 0..(MSG_SIZE_5IN1 * 8 - 1)]

FamFlip6 ==
    [num_rows : {1}, k : {0}, pre : {"p6"}, frame : {ref_6in1_a},
     n : {MSG_SIZE_6IN1 * 8}, fill : {0}, stale : {0}, flip : 0..(MSG_SIZE_6IN1 * 8 - 1)]

\* 6-in-1 frames with a good digest and every value of the checksum byte
FamChk ==
    {[num_rows |-> 1, k |-> 0, pre |-> "p6", frame |-> [f EXCEPT ![18] = x],
      n |-> MSG_SIZE_6IN1 * 8, fill |-> 0, stale |-> 0, flip |-> -1] :
        f \in {ref_6in1_a, ref_6in1_b}, x \in 0..255}

\* the digits a rain counter nibble takes
RainDigits == {0, 1, 9}

\* the 7-in-1 reference frame with the six rain digits d in msg[10..12] and the
\* digest of msg[0..1] made to fit, whitened as the sensor sends it
RainFrame(d) ==
    LET w == [Whiten(ref_7in1_a) EXCEPT ![11] = 16 * d[1] + d[2],
                                        ![12] = 16 * d[3] + d[4],
                                        ![13] = 16 * d[5] + d[6]]
        chk == Xor(lfsr_digest16(Sub(w, 2, 23), 34832, 47765), 28145, 16)
    IN  Whiten([w EXCEPT ![1] = chk \div 256, ![2] = chk % 256])

FamRain ==
    {[num_rows |-> 1, k |-> 0, pre |-> "p7", frame |-> RainFrame(d),
      n |-> MSG_SIZE_7IN1 * 8, fill |-> 0, stale |-> 0, flip |-> -1] :
        d \in [1..6 -> RainDigits]}

Inputs == FamLen \cup FamRows \cup FamFlip5 \cup FamFlip6 \cup FamChk \cup FamRain

NoPrior == [att7 |-> NotAttempted, att6 |-> NotAttempted, att5 |-> NotAttempted, ret |-> 0]

Init ==
    /\ tx \in Inputs
    /\ bitbuffer = BufferOf(tx)
    /\ entry = "7in1"
    /\ pc = "7in1"
    /\ att7 = NotAttempted
    /\ att6 = NotAttempted
    /\ att5 = NotAttempted
    /\ ret = 0
    /\ sink = <<>>
    /\ prior = NoPrior
    /\ flipped = -1

Next == Try7in1 \/ Try6in1 \/ Try5in1

Spec == Init /\ [][Next]_vars

(***************************************************************************)
(* A second reception of the same transmission with one bit of the frame   *)
(* flipped on the air.  The decode function under test is entered again    *)
(* at entry; prior keeps what the clean reception gave.                    *)
(***************************************************************************)
Corrupt(i) ==
    /\ pc = "done"
    /\ flipped = -1
    /\ i < tx.n
    /\ bitbuffer' = [bitbuffer EXCEPT !.row[tx.k + PreambleBits + i + 1] = 1 - @]
    /\ flipped' = i
    /\ prior' = [att7 |-> att7, att6 |-> att6, att5 |-> att5, ret |-> ret]
    /\ att7' = NotAttempted
    /\ att6' = NotAttempted
    /\ att5' = NotAttempted
    /\ ret' = 0
    /\ pc' = entry
    /\ UNCHANGED <<tx, entry, sink>>

Clean(pre, frame, k, n) ==
    [num_rows |-> 1, k |-> k, pre |-> pre, frame |-> frame, n |-> n,
     fill |-> 0, stale |-> 0, flip |-> -1]

\* clean receptions and the decode function each is given to
FlipBases ==
    {<<Clean("p7", ref_5in1_b, 0, MSG_SIZE_5IN1 * 8), "5in1">>,
     <<Clean("p7", ref_5in1_c, 0, MSG_SIZE_5IN1 * 8), "5in1">>,
     <<Clean("p7", ref_5in1_b, 5, MSG_SIZE_5IN1 * 8 - 5), "5in1">>,
     <<Clean("p7", ref_5in1_b, 0, MSG_SIZE_5IN1 * 8), "7in1">>,
     <<Clean("p6", ref_6in1_a, 0, MSG_SIZE_6IN1 * 8), "6in1">>,
     <<Clean("p6", ref_6in1_b, 0, MSG_SIZE_6IN1 * 8), "6in1">>,
     <<Clean("p7", ref_6in1_a, 0, MSG_SIZE_6IN1 * 8), "7in1">>,
     <<Clean("p7", ref_7in1_a, 0, MSG_SIZE_7IN1 * 8), "7in1">>}

InitFlip ==
    /\ \E b \in FlipBases : tx = b[1] /\ entry = b[2]
    /\ bitbuffer = BufferOf(tx)
    /\ pc = entry
    /\ att7 = NotAttempted
    /\ att6 = NotAttempted
    /\ att5 = NotAttempted
    /\ ret = 0
    /\ sink = <<>>
    /\ prior = NoPrior
    /\ flipped = -1

NextFlip == Try7in1 \/ Try6in1 \/ Try5in1 \/ (\E i \in 0..(MSG_SIZE_5IN1 * 8 - 1) : Corrupt(i))

SpecFlip == InitFlip /\ [][NextFlip]_vars

(***************************************************************************)
(* A second capture of the same transmission with extra bits demodulated   *)
(* in front of the preamble.  The dispatcher is entered again; prior keeps *)
(* what the first capture gave and sink keeps its reading.                 *)
(***************************************************************************)
MaxInsert == 8

\* every run of 1..MaxInsert inserted bits
Paddings == UNION {[1..n -> {0, 1}] : n \in 1..MaxInsert}

\* offset of the first preamble bit of transmission t in its row
PreambleAt(t) == t.k + (IF t.pre = "p6" THEN 8 ELSE 0)

InsertAt(row, at, pad) ==
    SubSeq(row, 1, at) \o pad \o SubSeq(row, at + 1, Len(row))

Insert(pad) ==
    /\ pc = "done"
    /\ prior = NoPrior
    /\ ret > 0
    /\ bitbuffer' = [bitbuffer EXCEPT !.row = InsertAt(@, PreambleAt(tx), pad),
                                      !.bits_per_row = @ + Len(pad)]
    /\ prior' = [att7 |-> att7, att6 |-> att6, att5 |-> att5, ret |-> ret]
    /\ att7' = NotAttempted
    /\ att6' = NotAttempted
    /\ att5' = NotAttempted
    /\ ret' = 0
    /\ pc' = entry
    /\ UNCHANGED <<tx, entry, sink, flipped>>

Framed(pre, frame, n, fill) ==
    [num_rows |-> 1, k |-> 0, pre |-> pre, frame |-> frame, n |-> n,
     fill |-> fill, stale |-> 0, flip |-> -1]

\* captures of the documented frames that decode, up to the longest row accepted
PadBases ==
    {Framed("p6", ref_6in1_a, MSG_SIZE_6IN1 * 8, 0),
     Framed("p6", ref_6in1_a, MSG_SIZE_6IN1 * 8 + 32, 1),
     Framed("p6", ref_6in1_b, 440 - 40, 0),
     Framed("p7", ref_7in1_a, MSG_SIZE_7IN1 * 8, 0),
     Framed("p7", ref_5in1_b, MSG_SIZE_5IN1 * 8, 0),
     Framed("p7", ref_5in1_c, MSG_SIZE_5IN1 * 8, 1)}

InitPad ==
    /\ tx \in PadBases
    /\ bitbuffer = BufferOf(tx)
    /\ entry = "7in1"
    /\ pc = entry
    /\ att7 = NotAttempted
    /\ att6 = NotAttempted
    /\ att5 = NotAttempted
    /\ ret = 0
    /\ sink = <<>>
    /\ prior = NoPrior
    /\ flipped = -1

NextPad == Try7in1 \/ Try6in1 \/ Try5in1 \/ (\E pad \in Paddings : Insert(pad))

SpecPad == InitPad /\ [][NextPad]_vars

(***************************************************************************)
(* Properties                                                              *)
(***************************************************************************)
Attempted(a) == a.stage # "none"

Attempts == <<att7, att6, att5>>

\* the readings of one model that reached the sink
ReadingsOf(model) == {i \in 1..Len(sink) : sink[i].model = model}

\* C1: the variants are attempted in the order 7-in-1, 6-in-1, 5-in-1; the first
\* positive result ends the call and is returned, a later variant is attempted
\* only after the earlier ones returned no reading, and when all three fail the
\* value returned is that of the 5-in-1 attempt.
C1_DispatchOrder ==
    /\ Attempted(att6) => Attempted(att7) /\ att7.ret <= 0
    /\ Attempted(att5) => Attempted(att6) /\ att6.ret <= 0
    /\ att7.ret > 0 => pc = "done" /\ ret = att7.ret /\ ~Attempted(att6) /\ ~Attempted(att5)
    /\ att6.ret > 0 => pc = "done" /\ ret = att6.ret /\ ~Attempted(att5)
    /\ pc = "6in1" => Attempted(att7) /\ ~Attempted(att6)
    /\ pc = "5in1" => Attempted(att6) /\ ~Attempted(att5)
    /\ pc = "done" =>
        /\ Attempted(att7)
        /\ att7.ret <= 0 => Attempted(att6)
        /\ (att7.ret <= 0 /\ att6.ret <= 0) => Attempted(att5) /\ ret = att5.ret

\* all three variants failed with three different codes, and the host got the last
C1_Witness ==
    /\ pc = "done"
    /\ att7.ret < 0 /\ att6.ret < 0 /\ att5.ret < 0
    /\ att7.ret # att5.ret /\ att6.ret # att5.ret
    /\ ret = att5.ret

\* C2: a Bresser-6in1 reading in the sink means digest and checksum of its frame
\* passed, a Bresser-5in1 reading means all 13 byte pairs mirror each other; a
\* reading whose integrity check failed is a Bresser-7in1 reading, whose digest
\* mismatch is noted without ending the decode.
C2_ReadingImpliesIntegrity ==
    /\ ReadingsOf("Bresser-6in1") # {} =>
        /\ att6.ret = 1 /\ att6.mic = "pass" /\ Len(att6.msg) = MSG_SIZE_6IN1
        /\ att6.msg[1] * 256 + att6.msg[2] = lfsr_digest16(Sub(att6.msg, 2, 15), 34832, 21522)
        /\ add_bytes(Sub(att6.msg, 2, 16)) % 256 = 255
    /\ ReadingsOf("Bresser-5in1") # {} =>
        /\ att5.ret = 1 /\ att5.mic = "pass" /\ Len(att5.msg) = MSG_SIZE_5IN1
        /\ \A col \in 0..12 : att5.msg[col + 1] + att5.msg[col + 14] = 255
    /\ \A v \in 1..3 : (Attempts[v].mic = "fail" /\ Attempts[v].out # <<>>) => v = 1
    /\ att7.mic = "fail" =>
        /\ att7.ret = 1 /\ ReadingsOf("Bresser-7in1") # {}
        /\ Xor(att7.msg[1] * 256 + att7.msg[2],
               lfsr_digest16(Sub(att7.msg, 2, 23), 34832, 47765), 16) # 28145

\* a 6-in-1 reading went out, its digest and its checksum good
C2_Witness == ReadingsOf("Bresser-6in1") # {} /\ att6.mic = "pass"

\* C3: no variant copies bits from beyond the declared length of the row.
C3_NoReadPastRow ==
    \A v \in 1..3 :
        Attempts[v].copied > 0 =>
            Attempts[v].start_pos + Attempts[v].copied <= bitbuffer.bits_per_row

\* the bits left in the row after the preamble a variant synchronised on
Remaining(a) == bitbuffer.bits_per_row - a.start_pos

Synced(a) == a.stage \notin {"none", "length", "preamble"}

MsgBits == <<MSG_SIZE_7IN1 * 8, MSG_SIZE_6IN1 * 8, MSG_SIZE_5IN1 * 8>>

\* C4: a variant with fewer bits left after the preamble than its message has
\* rejects the row as too short and extracts nothing; a message is extracted only
\* when at least that many bits are left.
C4_TooShortRejected ==
    \A v \in 1..3 :
        /\ (Synced(Attempts[v]) /\ Remaining(Attempts[v]) < MsgBits[v]) =>
            /\ Attempts[v].stage = "short"
            /\ Attempts[v].copied = 0 /\ Attempts[v].msg = <<>> /\ Attempts[v].out = <<>>
        /\ Attempts[v].copied > 0 => Remaining(Attempts[v]) >= MsgBits[v]

MinBits == <<160, 160, 248>>

\* the row is not the only one, or its length is outside the variant's range
OutOfRange(v) ==
    \/ bitbuffer.num_rows # 1
    \/ bitbuffer.bits_per_row < MinBits[v]
    \/ (v # 1 /\ bitbuffer.bits_per_row > 440)

\* C5: a buffer with a row count other than 1, or a row outside a variant's
\* length range, makes that variant return a length/range rejection before it
\* searches or extracts anything; a call on more than one row, or on a row of
\* fewer than 160 bits, emits no reading.
C5_LengthRejectFirst ==
    /\ \A v \in 1..3 :
        (Attempted(Attempts[v]) /\ OutOfRange(v)) =>
            /\ Attempts[v].stage = "length"
            /\ Attempts[v].ret \in {DECODE_ABORT_LENGTH, DECODE_ABORT_EARLY}
            /\ ~Attempts[v].searched
            /\ Attempts[v].copied = 0 /\ Attempts[v].msg = <<>> /\ Attempts[v].out = <<>>
    /\ (bitbuffer.num_rows # 1 \/ bitbuffer.bits_per_row < 160) =>
        /\ sink = <<>>
        /\ pc = "done" => ret < 0 /\ Attempted(att5)

\* a call on two rows that carry a well-formed frame, turned down by all three
C5_Witness ==
    /\ pc = "done" /\ bitbuffer.num_rows > 1 /\ bitbuffer.bits_per_row >= 248
    /\ att7.stage = "length" /\ att6.stage = "length" /\ att5.stage = "length"

\* a row with a preamble and too few bits behind it for any of the variants
ShortCapture ==
    BufferOf([num_rows |-> 1, k |-> 100, pre |-> "p7", frame |-> ref_7in1_a, n |-> 120,
              fill |-> 0, stale |-> 0, flip |-> -1])

\* what each variant returns for it
TooShortRet ==
    <<bresser_7in1_decode(ShortCapture).ret, bresser_6in1_decode(ShortCapture).ret,
      bresser_5in1_own(ShortCapture).ret>>

\* C6: a variant whose preamble is not in the row ends with the preamble-not-found
\* rejection, an outcome other than its too-short rejection; it emits nothing and
\* the next variant is still attempted.
C6_NotFoundDistinct ==
    \A v \in 1..3 :
        Attempts[v].stage = "preamble" =>
            /\ Attempts[v].ret < 0
            /\ Attempts[v].ret # TooShortRet[v]
            /\ Attempts[v].out = <<>>
            /\ (pc = "done" /\ v < 3) => Attempted(Attempts[v + 1])

\* C7: after a reception the 5-in-1 part accepted, the same row with one bit of
\* the frame flipped makes it return DECODE_FAIL_MIC at the one byte pair that no
\* longer mirrors; after a reception the 6-in-1 decoder accepted, a flipped bit in
\* msg[0..17] makes it return DECODE_FAIL_MIC; neither hands a reading over.
C7_FlipFailsIntegrity ==
    flipped # -1 =>
        /\ (prior.att5.ret = 1 /\ Attempted(att5)) =>
            /\ att5.ret = DECODE_FAIL_MIC /\ att5.stage = "parity" /\ att5.out = <<>>
            /\ {c \in 0..12 : att5.msg[c + 1] + att5.msg[c + 14] # 255} = {(flipped \div 8) % 13}
            /\ pc = "done" => ReadingsOf("Bresser-5in1") = {1}
        /\ (prior.att6.ret = 1 /\ Attempted(att6)) =>
            /\ att6.ret = DECODE_FAIL_MIC /\ att6.out = <<>>
            /\ ReadingsOf("Bresser-6in1") = {1}

\* the flipped bit sits in the last byte pair of an accepted 5-in-1 frame
C7_Witness ==
    /\ flipped \div 8 = 25
    /\ prior.att5.ret = 1
    /\ att5.ret = DECODE_FAIL_MIC

\* the sum of msg[2] .. msg[17]
Sum16(msg) ==
    msg[3] + msg[4] + msg[5] + msg[6] + msg[7] + msg[8] + msg[9] + msg[10] + msg[11]
    + msg[12] + msg[13] + msg[14] + msg[15] + msg[16] + msg[17] + msg[18]

RECURSIVE FoldCarry(_)
FoldCarry(x) == IF x > 255 THEN FoldCarry((x % 256) + (x \div 256)) ELSE x

\* the 6-in-1 decoder came as far as the checksum test
ChecksumTested == att6.stage \in {"checksum", "decoded"}

Found7 == bitbuffer_search(bitbuffer, preamble_bits_7in1)
Found6 == bitbuffer_search(bitbuffer, preamble_bits_6in1)
BothPreambles ==
    /\ bitbuffer.num_rows = 1
    /\ Found7 < bitbuffer.bits_per_row
    /\ Found6 < bitbuffer.bits_per_row

SinkIs(model) == Len(sink) = 1 /\ sink[1].model = model

AfterSync7 == bitbuffer.bits_per_row - (Found7 + PreambleBits)
Raw21 == bitbuffer_extract_bytes(bitbuffer, Found7 + PreambleBits, MSG_SIZE_7IN1 * 8)[22]

Frame5 == bitbuffer_extract_bytes(bitbuffer, Found7 + PreambleBits, MSG_SIZE_5IN1 * 8)

MirrorCapture ==
    /\ bitbuffer.num_rows = 1
    /\ bitbuffer.bits_per_row >= 248 /\ bitbuffer.bits_per_row <= 440
    /\ Found7 + PreambleBits + MSG_SIZE_5IN1 * 8 <= bitbuffer.bits_per_row
    /\ \A c \in 1..13 : Frame5[c] + Frame5[c + 13] = 255

\* the fields of the documented 5-in-1 layout
DocFields5(m, r) ==
    /\ r.model = "Bresser-5in1"
    /\ r.id = m[15]
    /\ r.temperature = (IF m[26] % 16 # 0 THEN -1 ELSE 1)
                       * (100 * (m[22] % 16) + 10 * (m[21] \div 16) + (m[21] % 16))
    /\ r.humidity = 10 * (m[23] \div 16) + (m[23] % 16)
    /\ (r.battery = "OK") <=> (m[26] < 128)

\* C10: a row of 248 to 440 bits with the 5-in-1 preamble and a 26-byte frame
\* whose halves mirror each other ends as one Bresser-5in1 reading with the
\* fields of the documented layout.
C10_MirrorFrameIsFiveInOne ==
    (pc = "done" /\ MirrorCapture) => Len(sink) = 1 /\ DocFields5(Frame5, sink[1])

\* the second capture has been decoded
Redecoded == pc = "done" /\ prior # NoPrior

\* C11: a capture that decodes to a reading gives the same reading (same model,
\* same field values) and the same result when any bits are inserted in front
\* of its preamble.
C11_PaddingInvariant ==
    Redecoded =>
        /\ ret = prior.ret
        /\ Len(sink) = 2
        /\ sink[2] = sink[1]

\* the padded capture decoded to the same reading / to another model / to nothing
C11_SameReading == Redecoded /\ Len(sink) = 2 /\ sink[2] = sink[1]
C11_OtherModel == Redecoded /\ Len(sink) = 2 /\ sink[2].model # sink[1].model
C11_Lost == Redecoded /\ Len(sink) = 1

\* the six BCD digits of the whitened bytes msg[10..12]
RainNibbles(m) ==
    <<HiNibble(m[11]), LoNibble(m[11]), HiNibble(m[12]), LoNibble(m[12]),
      HiNibble(m[13]), LoNibble(m[13])>>

SixDigits(d) ==
    100000 * d[1] + 10000 * d[2] + 1000 * d[3] + 100 * d[4] + 10 * d[5] + d[6]

\* a 7-in-1 reading of a frame whose digest fits and whose rain nibbles are digits
RainReading ==
    /\ SinkIs("Bresser-7in1")
    /\ att7.mic = "pass"
    /\ \A j \in 1..6 : RainNibbles(att7.msg)[j] <= 9

\* C12: in a 7-in-1 reading the rain counter is the six-digit BCD value of the
\* whitened bytes msg[10..12], whenever all six nibbles are digits.
C12_RainSixDigits ==
    RainReading => sink[1].rain = SixDigits(RainNibbles(att7.msg))

\* what the reading carries: the three leading digits only
C12_RainLeadingDigits ==
    RainReading =>
        sink[1].rain = SixDigits([RainNibbles(att7.msg) EXCEPT ![4] = 0, ![5] = 0, ![6] = 0])

C12_LowDigitsSet ==
    RainReading /\ \E j \in 4..6 : RainNibbles(att7.msg)[j] # 0

\* C13: a variant attempt that ends in a rejection or an integrity failure has
\* handed nothing to the sink and leaves the bitbuffer as the host delivered it,
\* so the next variant sees the original capture; a call hands at most one
\* reading to the sink, and hands one exactly when it returns a positive result.
C13_FailedAttemptsIsolated ==
    /\ bitbuffer = BufferOf(tx)
    /\ \A i \in 1..3 : Attempts[i].ret <= 0 => Attempts[i].out = <<>>
    /\ pc # "done" => sink = <<>>
    /\ Len(sink) <= 1
    /\ pc = "done" => (Len(sink) = 1 <=> ret > 0)

\* two variants failed after copying the message and the third decoded it
C13_Witness ==
    /\ pc = "done"
    /\ att7.copied > 0 /\ att7.ret < 0
    /\ att6.copied > 0 /\ att6.ret < 0
    /\ att5.ret > 0
    /\ Len(sink) = 1
    /\ sink[1].model = "Bresser-5in1"

====
